---- MODULE Spec2Model ----
(***************************************************************************)
(* Model of the WhatsApp expense tracker backend:                          *)
(*   - OpenAIService.processMessageWithTools (two NL-model round trips and  *)
(*     the concurrent execution of the tool calls of round 1),              *)
(*   - ExpenseHandlerService.executeFunction and the ExpenseService ledger  *)
(*     operations it awaits, one action per awaited database operation,     *)
(*   - WhatsappService.handleIncomingMessage (building and sending the      *)
(*     outbound message),                                                   *)
(*   - WhatsAppFormatter / TelegramFormatter (pure functions, specification *)
(*     SpecFmt).                                                            *)
(***************************************************************************)
EXTENDS Integers, Sequences, FiniteSets, TLC

\* ------------------------------------------------------------------ bounds
\* Tool calls issued by the NL model over the whole run (so also the longest
\* tool_calls array of one round-1 response).
MaxOps == 2

\* Two inbound messages, handled concurrently (two webhook deliveries).
Msgs == {1, 2}
\* User ids (owners of ledger records).
Owners == {"u1", "u2"}
\* Who sends which message: the first is from u1, who has a record already; the
\* second is from u1 again or from u2, who has none.
Senders == <<{"u1"}, Owners>>

\* JavaScript's undefined, for an absent string field.
Undefined == "undefined"
\* !x for a string-valued field: undefined and '' are falsy.
Falsy(s) == s = Undefined \/ s = ""

\* ------------------------------------------------------------------ dates
\* A calendar date (local time zone), as the y/m/d the code reads with
\* getFullYear/getMonth/getDate.
Today == [y |-> 2025, m |-> 11, d |-> 16]

IsLeap(y) == (y % 4 = 0 /\ y % 100 # 0) \/ y % 400 = 0

DaysInMonth(y, m) ==
  IF m = 2 THEN (IF IsLeap(y) THEN 29 ELSE 28)
  ELSE IF m \in {4, 6, 9, 11} THEN 30 ELSE 31

\* new Date(y, m, 1)
StartOfMonth(t) == [y |-> t.y, m |-> t.m, d |-> 1]
\* new Date(y, m + 1, 0): the last day of the month
EndOfMonth(t) == [y |-> t.y, m |-> t.m, d |-> DaysInMonth(t.y, t.m)]

\* Date.prototype.getDay: 0 for Sunday .. 6 for Saturday.
getDay(date) ==
  LET t == <<0, 3, 2, 5, 0, 3, 5, 1, 4, 6, 2, 4>>
      y == IF date.m < 3 THEN date.y - 1 ELSE date.y
  IN (y + (y \div 4) - (y \div 100) + (y \div 400) + t[date.m] + date.d) % 7

\* new Date(year, monthIndex, day) read back with the local getters, with the
\* month given 1-based (m = monthIndex + 1): a month or a day out of range
\* carries into the next (or previous) year or month.
RECURSIVE MakeDate(_, _, _)
MakeDate(y, m, d) ==
  IF m > 12 THEN MakeDate(y + 1, m - 12, d)
  ELSE IF m < 1 THEN MakeDate(y - 1, m + 12, d)
  ELSE IF d > DaysInMonth(y, m) THEN MakeDate(y, m + 1, d - DaysInMonth(y, m))
  ELSE IF d < 1
       THEN (IF m = 1 THEN MakeDate(y - 1, 12, d + 31)
             ELSE MakeDate(y, m - 1, d + DaysInMonth(y, m - 1)))
  ELSE [y |-> y, m |-> m, d |-> d]

\* A date text 'Y-M-D' is the record of its three numbers.
DateText(y, m, d) == [y |-> y, m |-> m, d |-> d]

\* The text names a calendar date.
IsCalendarDate(text) ==
  text.m \in 1..12 /\ text.d \in 1..DaysInMonth(text.y, text.m)

\* parseLocalDate: dateStr.split('-').map(Number), then new Date(year, month - 1, day)
parseLocalDate(text) == MakeDate(text.y, text.m, text.d)

\* new Date('YYYY-MM-DD') read back with the local getters, offset hours from
\* UTC: the text is taken as midnight UTC, which west of Greenwich is still
\* the evening of the day before.
NewDate(text, offset) ==
  IF offset < 0 THEN MakeDate(text.y, text.m, text.d - 1)
  ELSE MakeDate(text.y, text.m, text.d)

\* formatDate / formatLocalDate: the 'YYYY-MM-DD' text of a date.
formatDate(date) == DateText(date.y, date.m, date.d)

\* 'YYYY-MM-DD' string comparison (zero padded, so lexicographic = calendar).
DateLE(a, b) ==
  \/ a.y < b.y
  \/ a.y = b.y /\ a.m < b.m
  \/ a.y = b.y /\ a.m = b.m /\ a.d <= b.d

\* startOfWeek.setDate(today.getDate() - dayOfWeek)
StartOfWeek(t) == MakeDate(t.y, t.m, t.d - getDay(t))
\* endOfWeek.setDate(startOfWeek.getDate() + 7)
EndOfWeek(t) == MakeDate(StartOfWeek(t).y, StartOfWeek(t).m, StartOfWeek(t).d + 7)

\* ------------------------------------------------------------------ ledger
\* Sum of the amounts of a set of records.
RECURSIVE SumAmounts(_)
SumAmounts(rs) ==
  IF rs = {} THEN 0
  ELSE LET r == CHOOSE x \in rs : TRUE IN r.amount + SumAmounts(rs \ {r})

\* Variant whose query has no condition on the user.
getExpensesByDateRangeOfAll(led, userId, startDate, endDate) ==
  {r \in led : DateLE(startDate, r.date) /\ DateLE(r.date, endDate)}

\* ExpenseService.getExpensesByUserAndDateRange (as a set; order is not modelled)
getExpensesByUserAndDateRange(led, userId, startDate, endDate) ==
  {r \in led : r.owner = userId /\ DateLE(startDate, r.date) /\ DateLE(r.date, endDate)}

\* ExpenseService.getTotalExpensesByUserThisMonth
getTotalExpensesByUserThisMonth(led, userId) ==
  LET expenses == getExpensesByUserAndDateRange(led, userId, StartOfMonth(Today), EndOfMonth(Today))
  IN [total |-> SumAmounts(expenses), count |-> Cardinality(expenses)]

\* Variant that orders by createdAt ascending: the oldest record first.
getOldestExpenses(led, userId) ==
  LET mine == {r \in led : r.owner = userId}
  IN IF mine = {} THEN << >>
     ELSE << CHOOSE r \in mine : \A q \in mine : r.id <= q.id >>

\* ExpenseService.getLatestExpenses(userId, 1): newest createdAt first; records
\* are created with increasing ids, so the newest is the one with the largest id.
getLatestExpenses(led, userId) ==
  LET mine == {r \in led : r.owner = userId}
  IN IF mine = {} THEN << >>
     ELSE << CHOOSE r \in mine : \A q \in mine : q.id <= r.id >>

\* expenseRepository.findOne({ where: { id, user: { id: userId } } })
findOne(led, expenseId, userId) ==
  {r \in led : r.id = expenseId /\ r.owner = userId}

\* Variant whose query keeps every row dated today or earlier.
getTotalExpensesByUserUpToToday(led, userId) ==
  LET expenses == {r \in led : r.owner = userId /\ DateLE(r.date, Today)}
  IN [total |-> SumAmounts(expenses), count |-> Cardinality(expenses)]

\* ExpenseService.getTotalExpensesByUserToday: the rows whose date column
\* equals the local date of now.
getTotalExpensesByUserToday(led, userId) ==
  LET expenses == {r \in led : r.owner = userId /\ r.date = formatDate(Today)}
  IN [total |-> SumAmounts(expenses), count |-> Cardinality(expenses)]

\* Variant that leaves the entries in the order of the query, newest date first.
RECURSIVE SortDatesDesc(_)
SortDatesDesc(ds) ==
  IF ds = {} THEN << >>
  ELSE LET first == CHOOSE d \in ds : \A e \in ds : DateLE(e, d)
       IN <<first>> \o SortDatesDesc(ds \ {first})

\* Array.prototype.sort by date.localeCompare, on a set of distinct dates.
RECURSIVE SortDates(_)
SortDates(ds) ==
  IF ds = {} THEN << >>
  ELSE LET first == CHOOSE d \in ds : \A e \in ds : DateLE(d, e)
       IN <<first>> \o SortDates(ds \ {first})

\* ExpenseService.getDailyExpenses: the rows of the range grouped by date,
\* one entry per date with total and count, sorted by date.
getDailyExpenses(led, userId, startDate, endDate) ==
  LET expenses == getExpensesByUserAndDateRange(led, userId, startDate, endDate)
      dates == SortDates({formatDate(r.date) : r \in expenses})
  IN [k \in 1..Len(dates) |->
        [date |-> dates[k],
         total |-> SumAmounts({r \in expenses : formatDate(r.date) = dates[k]}),
         count |-> Cardinality({r \in expenses : formatDate(r.date) = dates[k]})]]

\* A category text is a sequence of characters; << >> when absent.
toLowerCaseChar(c) ==
  IF c = "F" THEN "f" ELSE IF c = "O" THEN "o" ELSE IF c = "D" THEN "d" ELSE c

\* String.prototype.toLowerCase
toLowerCase(s) == [i \in 1..Len(s) |-> toLowerCaseChar(s[i])]

\* String.prototype.trim
RECURSIVE trim(_)
trim(s) ==
  IF s = << >> THEN s
  ELSE IF Head(s) = " " THEN trim(Tail(s))
  ELSE IF s[Len(s)] = " " THEN trim(SubSeq(s, 1, Len(s) - 1))
  ELSE s

\* ExpenseService.createExpense: the row that expenseRepository.save inserts.
\* The category is trimmed and lower-cased (an absent or empty category is
\* stored as NULL); the date is the local calendar date of the Date passed in.
createExpense(id, userId, amount, category, date) ==
  [id |-> id, owner |-> userId, amount |-> amount,
   category |-> IF category = << >> THEN << >> ELSE toLowerCase(trim(category)),
   date |-> [y |-> date.y, m |-> date.m, d |-> date.d]]

Uncategorized == <<"u", "n", "c", "a", "t", "e", "g", "o", "r", "i", "z", "e", "d">>

\* ExpenseService.getTotalExpensesByUserThisWeek
getTotalExpensesByUserThisWeek(led, userId) ==
  LET expenses == getExpensesByUserAndDateRange(led, userId, StartOfWeek(Today), EndOfWeek(Today))
  IN [total |-> SumAmounts(expenses), count |-> Cardinality(expenses)]

\* ExpenseService.getExpensesByUser: every record of the user.
getExpensesByUser(led, userId) == {r \in led : r.owner = userId}

\* The records getExpensesByCategory groups for a period.
PeriodExpenses(led, userId, period) ==
  IF period = "this_month"
  THEN getExpensesByUserAndDateRange(led, userId, StartOfMonth(Today), EndOfMonth(Today))
  ELSE IF period = "this_week"
  THEN getExpensesByUserAndDateRange(led, userId, StartOfWeek(Today), EndOfWeek(Today))
  ELSE getExpensesByUser(led, userId)

\* Variant that keys the map by the category as stored.
normalizedCategoryRaw(category) ==
  IF category = << >> THEN Uncategorized ELSE category

\* expense.category ? expense.category.trim().toLowerCase() : 'uncategorized'
normalizedCategory(category) ==
  IF category = << >> THEN Uncategorized ELSE toLowerCase(trim(category))

\* The categoryMap of getExpensesByCategory as an array of entries: one entry
\* per normalised category with total and count.
GroupByCategory(expenses) ==
  LET cats == {normalizedCategory(r.category) : r \in expenses}
  IN {[category |-> c,
       total |-> SumAmounts({r \in expenses : normalizedCategory(r.category) = c}),
       count |-> Cardinality({r \in expenses : normalizedCategory(r.category) = c})] : c \in cats}

\* ExpenseService.getExpensesByCategory(userId, period)
getExpensesByCategoryFor(led, userId, period) ==
  GroupByCategory(PeriodExpenses(led, userId, period))

\* ExpenseService.getExpensesByCategory for period 'this_month'.
getExpensesByCategory(led, userId) == getExpensesByCategoryFor(led, userId, "this_month")

\* ------------------------------------------------------------------ JSON
\* A text handed to JSON.parse: either the serialisation of a value or not JSON.
JSONstringify(v) == [json |-> TRUE, value |-> v]
NotJson(t) == [json |-> FALSE, value |-> t]
\* JSON.parse: throws on a text that is not JSON.
JSONparse(text) == [threw |-> ~text.json, value |-> text.value]
\* The empty string (falsy in `x || default`).
EmptyText == NotJson("")

\* ------------------------------------------------------------------ tool calls
\* What the NL model may put into tool_calls in round 1.
AddCall ==
  [type |-> "function", name |-> "add_expense",
   arguments |-> JSONstringify([amount |-> 5])]
DeleteLatestCall ==
  [type |-> "function", name |-> "delete_expense", arguments |-> JSONstringify(<< >>)]
MonthTotalCall ==
  [type |-> "function", name |-> "get_total_expenses_this_month", arguments |-> EmptyText]
ReportCall ==
  [type |-> "function", name |-> "generate_expense_report",
   arguments |-> JSONstringify([period |-> "this_month"])]
BadArgsCall ==
  [type |-> "function", name |-> "add_expense", arguments |-> NotJson("{amount:")]
CustomCall ==
  [type |-> "custom", name |-> "custom_tool", arguments |-> EmptyText]

\* Further requests, each handled on its own in round 1.
AddNoAmountCall ==
  [type |-> "function", name |-> "add_expense", arguments |-> JSONstringify(<< >>)]
AddNegativeCall ==
  [type |-> "function", name |-> "add_expense",
   arguments |-> JSONstringify([amount |-> 0 - 9])]
AddZeroCall ==
  [type |-> "function", name |-> "add_expense",
   arguments |-> JSONstringify([amount |-> 0])]
AddDatedCall ==
  [type |-> "function", name |-> "add_expense",
   arguments |-> JSONstringify([amount |-> 5, date |-> DateText(2025, 11, 15)])]
DeleteByIdCall ==
  [type |-> "function", name |-> "delete_expense",
   arguments |-> JSONstringify([expenseId |-> 1])]
DeleteAbsentCall ==
  [type |-> "function", name |-> "delete_expense",
   arguments |-> JSONstringify([expenseId |-> 99])]
TodayTotalCall ==
  [type |-> "function", name |-> "get_total_expenses_today", arguments |-> EmptyText]
RangeCall ==
  [type |-> "function", name |-> "get_expenses_by_date_range",
   arguments |-> JSONstringify([startDate |-> DateText(2025, 11, 15),
                                endDate |-> DateText(2025, 11, 15)])]
RangeReversedCall ==
  [type |-> "function", name |-> "get_expenses_by_date_range",
   arguments |-> JSONstringify([startDate |-> DateText(2025, 11, 16),
                                endDate |-> DateText(2025, 11, 1)])]
RangeNoStartCall ==
  [type |-> "function", name |-> "get_expenses_by_date_range",
   arguments |-> JSONstringify(<< >>)]
RangeImpossibleCall ==
  [type |-> "function", name |-> "get_expenses_by_date_range",
   arguments |-> JSONstringify([startDate |-> DateText(2025, 2, 30),
                                endDate |-> DateText(2025, 13, 1)])]
RangeOpenEndCall ==
  [type |-> "function", name |-> "get_expenses_by_date_range",
   arguments |-> JSONstringify([startDate |-> DateText(2025, 11, 1)])]
TotalRangeCall ==
  [type |-> "function", name |-> "get_total_expenses_by_date_range",
   arguments |-> JSONstringify([startDate |-> DateText(2025, 11, 1),
                                endDate |-> DateText(2025, 11, 30)])]
TotalRangeReversedCall ==
  [type |-> "function", name |-> "get_total_expenses_by_date_range",
   arguments |-> JSONstringify([startDate |-> DateText(2025, 11, 30),
                                endDate |-> DateText(2025, 11, 1)])]
TotalRangeNoStartCall ==
  [type |-> "function", name |-> "get_total_expenses_by_date_range",
   arguments |-> JSONstringify(<< >>)]
DailyChartCall ==
  [type |-> "function", name |-> "generate_daily_expense_chart",
   arguments |-> JSONstringify([startDate |-> DateText(2025, 11, 1),
                                endDate |-> DateText(2025, 11, 30)])]
DailyChartReversedCall ==
  [type |-> "function", name |-> "generate_daily_expense_chart",
   arguments |-> JSONstringify([startDate |-> DateText(2025, 11, 30),
                                endDate |-> DateText(2025, 11, 1)])]
DailyChartDefaultCall ==
  [type |-> "function", name |-> "generate_daily_expense_chart", arguments |-> EmptyText]

ExecMenu ==
  <<AddCall, AddNoAmountCall, AddNegativeCall, AddZeroCall, AddDatedCall,
    DeleteLatestCall, DeleteByIdCall, DeleteAbsentCall,
    TodayTotalCall, MonthTotalCall, ReportCall,
    RangeCall, RangeReversedCall, RangeNoStartCall, RangeImpossibleCall, RangeOpenEndCall,
    TotalRangeCall, TotalRangeReversedCall, TotalRangeNoStartCall,
    DailyChartCall, DailyChartReversedCall, DailyChartDefaultCall>>

ToolCallMenu ==
  <<AddCall, DeleteLatestCall, MonthTotalCall, ReportCall, BadArgsCall, CustomCall>>

\* The tool_calls arrays of a round-1 response that has n tool calls. The map
\* callbacks of one response all start in the same turn, so the order of the
\* array decides nothing but the ids: arrays are taken up to reordering.
ToolCallSeqs(n) ==
  { [i \in 1..n |-> ToolCallMenu[f[i]]] :
      f \in {g \in [1..n -> 1..Len(ToolCallMenu)] :
               \A i \in 1..n, j \in 1..n : i < j => g[i] <= g[j]} }

\* The id the NL model gives the i-th tool call of message m's round 1.
ToolCallId(m, i) == <<m, i>>

\* The direct text of a round-1 response (message.content), possibly empty; a
\* response that carries tool_calls has content null.
Round1Contents == {"", "Hello!"}

\* ------------------------------------------------------------------ envelopes
\* PlatformResponse: absent string fields are Undefined, absent templateParams
\* is the empty list of pairs.
Envelope(format, content, templateName, templateParams, imageUrl, caption) ==
  [format |-> format, content |-> content, templateName |-> templateName,
   templateParams |-> templateParams, imageUrl |-> imageUrl, caption |-> caption]

TextEnvelope(content) ==
  Envelope("text", content, Undefined, << >>, Undefined, Undefined)

NoEnvelope == Envelope("none", Undefined, Undefined, << >>, Undefined, Undefined)

FallbackText == "Sorry, I encountered an error processing your request. Please try again."
HelpText == "I'm not sure how to help with that. Try asking about your expenses or adding a new expense."
Round2DefaultContent == "Sorry, I encountered an error."
ChartUrl == "https://quickchart.io/chart?c=pie"
BarChartUrl == "https://quickchart.io/chart?c=bar"

\* The catch block of processMessageWithTools.
FallbackEnvelope == TextEnvelope(FallbackText)

\* Variant without the help text for an empty round-1 content.
DirectReplyRaw(content) == TextEnvelope(content)

\* "No function calls, return direct response as text".
DirectReply(content) == TextEnvelope(IF Falsy(content) THEN HelpText ELSE content)

\* The object the NL model writes in round 2 (fields it leaves out are Undefined).
Parsed(format, content, templateName, imageUrl, caption) ==
  [format |-> format, content |-> content, templateName |-> templateName,
   templateParams |-> << >>, imageUrl |-> imageUrl, caption |-> caption]

\* Round-2 message.content values.
Round2Outputs ==
  { NotJson("Done, saved!"),
    EmptyText,
    JSONstringify(Parsed("text", "Saved.", Undefined, Undefined, Undefined)),
    JSONstringify(Parsed("text", "Your report", Undefined, ChartUrl, "Chart")),
    JSONstringify(Parsed("template", "Hi", "not_approved", Undefined, Undefined)),
    JSONstringify(Parsed(Undefined, Undefined, Undefined, Undefined, Undefined)) }

\* The default round-2 text used when message.content is empty.
Round2DefaultOutput ==
  JSONstringify(Parsed("text", Round2DefaultContent, Undefined, Undefined, Undefined))

\* Variant that answers with the default content when the text is not JSON.
ParseReplyDefault(out) ==
  IF ~out.json /\ out.value # "" THEN TextEnvelope(Round2DefaultContent)
  ELSE LET parsed == (IF out.json THEN out.value
                      ELSE Parsed("text", Round2DefaultContent, Undefined, Undefined, Undefined))
       IN Envelope(IF parsed.format = "template" THEN "template" ELSE "text",
                   IF Falsy(parsed.content) THEN Round2DefaultContent ELSE parsed.content,
                   parsed.templateName,
                   parsed.templateParams,
                   IF Falsy(parsed.imageUrl) THEN Undefined ELSE parsed.imageUrl,
                   IF Falsy(parsed.imageUrl) THEN Undefined ELSE parsed.caption)

\* processMessageWithTools, from the round-2 text to the returned envelope.
ParseReply(out) ==
  LET responseContent == IF ~out.json /\ out.value = "" THEN Round2DefaultOutput ELSE out
      res == JSONparse(responseContent)
      parsed == res.value
  IN IF res.threw THEN TextEnvelope(responseContent.value)
     ELSE Envelope(IF parsed.format = "template" THEN "template" ELSE "text",
                   IF Falsy(parsed.content) THEN Round2DefaultContent ELSE parsed.content,
                   parsed.templateName,
                   parsed.templateParams,
                   IF Falsy(parsed.imageUrl) THEN Undefined ELSE parsed.imageUrl,
                   IF Falsy(parsed.imageUrl) THEN Undefined ELSE parsed.caption)

\* ------------------------------------------------------------------ state
VARIABLES
  ledger,      \* the expense table: a set of records
  nextId,      \* the next value of the id sequence
  opsIssued,   \* tool calls the NL model has issued so far
  pc,          \* per message: position of handleIncomingMessage / processMessageWithTools
  owner,       \* per message: the user of the sender (contact.wa_id)
  thrownBy,    \* per message: the call that threw inside handleIncomingMessage's try
  failed,      \* per message: what failed first while the message was processed
  r1Calls,     \* per message: round-1 requests sent to the NL model
  r2Calls,     \* per message: round-2 requests sent to the NL model
  r1Content,   \* per message: message.content of the round-1 response
  ops,         \* per message: the map callbacks of Promise.all, one per tool call:
               \*   call (the tool call), pc (position), tmp (expense id held),
               \*   result (the value executeFunction returned)
  execCount,   \* per message and tool call: invocations of executeFunction
  round2Req,   \* per message: the tool messages (validResults) of the round-2 request
  reply,       \* per message: the envelope processMessageWithTools returned
  outbound,    \* per message: the message handed to sendWhatsappMessage, in flight
  response,    \* formatters: the PlatformResponse to format
  recipientId, \* formatters: the recipient (WhatsApp id / Telegram chat id)
  message,     \* formatters: what WhatsAppFormatter.format returned
  telegramMessage, \* formatters: what TelegramFormatter.format returned
  tz,          \* the deployment's time zone: hours east of UTC
  grouped,     \* ledger service: the last query made and what it returned
  responseContent \* round 2: the text of the NL model that is parsed into `response`

orchVars == <<ledger, nextId, opsIssued, pc, owner, thrownBy, failed, r1Calls, r2Calls,
              r1Content, ops, execCount, round2Req, reply, outbound>>

fmtVars == <<response, recipientId, message, telegramMessage>>

\* The time zones the service is deployed in.
TimeZones == {0 - 5, 0, 9}

\* No query of the ledger service has been made.
NoQuery == [op |-> "none"]

\* The value of a promise that has not settled.
Pending == [pending |-> TRUE]
\* The map callback's `return null` for a tool call that is not a function call.
Null == [null |-> TRUE]

NoMessage == [type |-> "none"]

\* A record that is already in the table when the run starts.
SeedRecord == createExpense(1, "u1", 7, <<"F", "o", "o", "d", " ">>, Today)

\* UserService.findById: every sender has a user row (findOrCreateByPhoneNumber).
Users == Owners
findById(userId) == {u \in Users : u = userId}

\* Nothing received yet.
Idle ==
  /\ ledger = {SeedRecord}
  /\ nextId = 2
  /\ opsIssued = 0
  /\ pc = [m \in Msgs |-> "idle"]
  /\ owner = [m \in Msgs |-> "u1"]
  /\ thrownBy = [m \in Msgs |-> "none"]
  /\ failed = [m \in Msgs |-> "none"]
  /\ r1Calls = [m \in Msgs |-> 0]
  /\ r2Calls = [m \in Msgs |-> 0]
  /\ r1Content = [m \in Msgs |-> ""]
  /\ ops = [m \in Msgs |-> << >>]
  /\ execCount = [m \in Msgs |-> << >>]
  /\ round2Req = [m \in Msgs |-> << >>]
  /\ reply = [m \in Msgs |-> NoEnvelope]
  /\ outbound = [m \in Msgs |-> NoMessage]

Init ==
  /\ Idle
  /\ response = NoEnvelope
  /\ recipientId = "u1"
  /\ message = NoMessage
  /\ telegramMessage = NoMessage
  /\ tz = 0
  /\ grouped = NoQuery
  /\ responseContent = EmptyText

\* ------------------------------------------------------------------ orchestrator
\* A callback that has returned or thrown.
Settled(op) == op.pc \in {"done", "skipped", "threw"}

\* The locals of processMessageWithTools (toolCalls, results) are gone once it has
\* returned and no callback of its Promise.all is still running.
Sweep(os) == IF \A i \in 1..Len(os) : Settled(os[i]) THEN << >> ELSE os

\* handleIncomingMessage: the message built from the returned envelope.
OutboundFor(to, resp) ==
  IF ~Falsy(resp.imageUrl)
  THEN [type |-> "image", to |-> to, link |-> resp.imageUrl,
        body |-> IF Falsy(resp.caption) THEN resp.content ELSE resp.caption]
  ELSE [type |-> "text", to |-> to, link |-> Undefined, body |-> resp.content]

ErrorText == "Sorry, I encountered an error processing your message. Please try again."

\* Variant whose catch block only logs and sends nothing.
ErrorMessageNone(to) == NoMessage

\* handleIncomingMessage's catch block: the error text.
ErrorMessage(to) == [type |-> "text", to |-> to, link |-> Undefined, body |-> ErrorText]

\* processMessageWithTools returns `response` to handleIncomingMessage, which
\* builds the outbound message and calls sendWhatsappMessage (axios.post); `os`
\* are the callbacks of Promise.all at that moment.
Returns(m, resp, os) ==
  /\ reply' = [reply EXCEPT ![m] = resp]
  /\ outbound' = [outbound EXCEPT ![m] = OutboundFor(owner[m], resp)]
  /\ pc' = [pc EXCEPT ![m] = "sending"]
  /\ round2Req' = [round2Req EXCEPT ![m] = << >>]
  /\ ops' = [ops EXCEPT ![m] = Sweep(os)]
  /\ UNCHANGED thrownBy

\* Variant without the catch block: the exception leaves processMessageWithTools
\* and reaches the catch block of handleIncomingMessage.
Uncaught(m, os) ==
  /\ thrownBy' = [thrownBy EXCEPT ![m] = "processMessageWithTools"]
  /\ outbound' = [outbound EXCEPT ![m] = ErrorMessage(owner[m])]
  /\ pc' = [pc EXCEPT ![m] = "sendingError"]
  /\ round2Req' = [round2Req EXCEPT ![m] = << >>]
  /\ ops' = [ops EXCEPT ![m] = Sweep(os)]
  /\ UNCHANGED reply

\* The catch block of processMessageWithTools: log, and return the fallback.
Caught(m, os) == Returns(m, FallbackEnvelope, os)

\* handleIncomingMessage up to the round-1 request: the user lookup, then
\* processMessage -> processMessageWithTools -> chat.completions.create.
\* Messages are interchangeable, so they are numbered in the order they arrive.
Receive(m) ==
  /\ pc[m] = "idle"
  /\ \A k \in Msgs : k < m => pc[k] # "idle"
  /\ \E u \in Senders[m], lookupOk \in BOOLEAN :
       /\ owner' = [owner EXCEPT ![m] = u]
       /\ IF lookupOk
          THEN /\ pc' = [pc EXCEPT ![m] = "round1"]
               /\ r1Calls' = [r1Calls EXCEPT ![m] = @ + 1]
               /\ UNCHANGED <<thrownBy, outbound>>
          ELSE /\ pc' = [pc EXCEPT ![m] = "sendingError"]
               /\ thrownBy' = [thrownBy EXCEPT ![m] = "findOrCreateByPhoneNumber"]
               /\ outbound' = [outbound EXCEPT ![m] = ErrorMessage(u)]
               /\ UNCHANGED r1Calls
  /\ UNCHANGED <<ledger, nextId, opsIssued, failed, r2Calls, r1Content, ops, execCount,
                 round2Req, reply>>
  /\ UNCHANGED <<fmtVars, tz, grouped, responseContent>>

\* Variant that calls the NL model again when the round-1 call rejects.
Round1Retry(m) ==
  /\ pc[m] = "round1"
  /\ r1Calls[m] < 3
  /\ r1Calls' = [r1Calls EXCEPT ![m] = @ + 1]
  /\ UNCHANGED <<ledger, nextId, opsIssued, pc, owner, thrownBy, failed, r2Calls,
                 r1Content, ops, execCount, round2Req, reply, outbound>>
  /\ UNCHANGED <<fmtVars, tz, grouped, responseContent>>

\* The round-1 call rejects.
Round1Fail(m) ==
  /\ pc[m] = "round1"
  /\ failed' = [failed EXCEPT ![m] = "round1"]
  /\ Caught(m, ops[m])
  /\ UNCHANGED <<ledger, nextId, opsIssued, owner, r1Calls, r2Calls, r1Content,
                 execCount>>
  /\ UNCHANGED <<fmtVars, tz, grouped, responseContent>>

\* toolCall.function.arguments || '{}', then JSON.parse
ParseArgs(tc) ==
  IF ~tc.arguments.json /\ tc.arguments.value = ""
  THEN [threw |-> FALSE, value |-> << >>]
  ELSE JSONparse(tc.arguments)

\* Where the map callback of a tool call stands after its synchronous part:
\* not a function call: return null; JSON.parse throws; or executeFunction is
\* called and awaits the user lookup.
StartPc(tc) ==
  IF tc.type # "function" THEN "skipped"
  ELSE IF ParseArgs(tc).threw THEN "threw"
  ELSE "lookup"

\* toolCalls.map(async (toolCall) => ...): the callbacks, all started.
StartOps(tcs) ==
  [i \in 1..Len(tcs) |->
     [call |-> tcs[i], pc |-> StartPc(tcs[i]), tmp |-> 0,
      result |-> IF StartPc(tcs[i]) = "skipped" THEN Null ELSE Pending]]

\* The round-1 call resolves: either the direct reply, or every map callback is
\* started (Promise.all over toolCalls.map).
Round1Return(m) ==
  /\ pc[m] = "round1"
  /\ \E n \in 0..(MaxOps - opsIssued) :
     \E content \in Round1Contents, tcs \in ToolCallSeqs(n) :
       /\ n > 0 => content = ""
       /\ r1Content' = [r1Content EXCEPT ![m] = content]
       /\ opsIssued' = opsIssued + n
       /\ execCount' = [execCount EXCEPT ![m] =
            [i \in 1..n |-> IF StartPc(tcs[i]) = "lookup" THEN 1 ELSE 0]]
       /\ IF n = 0
          THEN /\ Returns(m, DirectReply(content), << >>)
               /\ UNCHANGED failed
          ELSE IF \E i \in 1..n : StartPc(tcs[i]) = "threw"
          THEN /\ failed' = [failed EXCEPT ![m] = "arguments"]
               /\ Caught(m, StartOps(tcs))
          ELSE /\ pc' = [pc EXCEPT ![m] = "executing"]
               /\ ops' = [ops EXCEPT ![m] = StartOps(tcs)]
               /\ UNCHANGED <<reply, round2Req, thrownBy, failed, outbound>>
  /\ UNCHANGED <<ledger, nextId, owner, r1Calls, r2Calls>>
  /\ UNCHANGED <<fmtVars, tz, grouped, responseContent>>

\* ------------------------------------------------------------------ executeFunction
\* Frame of a step of one tool call's callback.
OpFrame ==
  UNCHANGED <<opsIssued, owner, r1Calls, r2Calls, r1Content, execCount, fmtVars, tz, grouped, responseContent>>

\* The callback moves on to its next await.
Goto(m, i, next, tmp) ==
  /\ ops' = [ops EXCEPT ![m][i].pc = next, ![m][i].tmp = tmp]
  /\ UNCHANGED <<pc, reply, round2Req, thrownBy, failed, outbound>>

\* executeFunction returns `result`: the callback resolves with the tool message.
Return(m, i, result) ==
  /\ LET os == [ops[m] EXCEPT ![i].pc = "done", ![i].result = result]
     IN ops' = [ops EXCEPT ![m] = IF pc[m] = "executing" THEN os ELSE Sweep(os)]
  /\ UNCHANGED <<pc, reply, round2Req, thrownBy, failed, outbound>>

\* executeFunction throws: the callback's promise rejects, so Promise.all rejects
\* and, if processMessageWithTools is still waiting on it, its catch block runs.
\* The callbacks of the other tool calls keep running.
Reject(m, i) ==
  LET os == [ops[m] EXCEPT ![i].pc = "threw"]
  IN IF pc[m] = "executing"
     THEN /\ failed' = [failed EXCEPT ![m] = "execute"]
          /\ Caught(m, os)
     ELSE /\ ops' = [ops EXCEPT ![m] = Sweep(os)]
          /\ UNCHANGED <<pc, reply, round2Req, thrownBy, failed, outbound>>

Failure(msg) == [success |-> FALSE, error |-> msg]

\* The position after the user lookup, by functionName (the switch).
Dispatch(tc) ==
  IF tc.name = "add_expense" THEN "save"
  ELSE IF tc.name = "delete_expense"
       THEN (IF "expenseId" \in DOMAIN ParseArgs(tc).value
                /\ ParseArgs(tc).value.expenseId # 0
             THEN "find" ELSE "latest")
  ELSE IF tc.name = "get_total_expenses_this_month" THEN "total"
  ELSE IF tc.name = "generate_expense_report" THEN "report"
  ELSE IF tc.name = "get_total_expenses_today" THEN "today"
  ELSE IF tc.name = "get_expenses_by_date_range" THEN "range"
  ELSE IF tc.name = "get_total_expenses_by_date_range" THEN "totalRange"
  ELSE IF tc.name = "generate_daily_expense_chart" THEN "daily"
  ELSE "default"

\* An argument is present in the parsed arguments object.
Has(args, key) == key \in DOMAIN args

\* The two date range cases call parseLocalDate(rangeArgs.startDate) right after
\* the lookup and outside any try block: with startDate undefined,
\* dateStr.split throws a TypeError.
ThrowsOnStart(tc) ==
  /\ Dispatch(tc) \in {"range", "totalRange"}
  /\ ~Has(ParseArgs(tc).value, "startDate")

\* await this.userService.findById(userId), outside every try block.
OpLookup(m, i) ==
  /\ ops[m][i].pc = "lookup"
  /\ \E dbOk \in BOOLEAN :
       LET tc == ops[m][i].call
       IN IF ~dbOk THEN Reject(m, i)
          ELSE IF findById(owner[m]) = {}
          THEN Return(m, i, [error |-> "Couldn't find your user account"])
          ELSE IF Dispatch(tc) = "default"
          THEN Return(m, i, [error |-> "Unknown function"])
          ELSE IF ThrowsOnStart(tc) THEN Reject(m, i)
          ELSE Goto(m, i, Dispatch(tc),
                    IF Dispatch(tc) = "find" THEN ParseArgs(tc).value.expenseId ELSE 0)
  /\ UNCHANGED <<ledger, nextId>>
  /\ OpFrame

\* add_expense: const date = args.date ? new Date(args.date) : new Date()
AddDate(args, offset) ==
  IF Has(args, "date") THEN NewDate(args.date, offset) ELSE Today

\* The row add_expense hands to the repository for the parsed arguments.
AddRow(id, userId, args, offset) ==
  createExpense(id, userId, args.amount, << >>, AddDate(args, offset))

\* add_expense: await this.expenseService.createExpense(...) (expenseRepository.save).
\* The amount column is NOT NULL: a row without amount is refused by the
\* database, and the error is caught like any other failure of the save.
OpSave(m, i) ==
  /\ ops[m][i].pc = "save"
  /\ \E dbOk \in BOOLEAN :
       IF dbOk /\ Has(ParseArgs(ops[m][i].call).value, "amount")
       THEN /\ ledger' = ledger \cup
                 {AddRow(nextId, owner[m], ParseArgs(ops[m][i].call).value, tz)}
            /\ nextId' = nextId + 1
            /\ Goto(m, i, "monthly", nextId)
       ELSE /\ UNCHANGED <<ledger, nextId>>
            /\ Return(m, i, Failure("Failed to save expense"))
  /\ OpFrame

\* The success value of add_expense (the description is not modelled).
AddResult(expense, monthlyData) ==
  [success |-> TRUE,
   expense |-> [amount |-> expense.amount, category |-> expense.category,
                date |-> expense.date],
   monthlyTotal |-> monthlyData.total, monthlyCount |-> monthlyData.count]

\* add_expense: await this.expenseService.getTotalExpensesByUserThisMonth(userId)
OpMonthly(m, i) ==
  /\ ops[m][i].pc = "monthly"
  /\ \E dbOk \in BOOLEAN :
       IF dbOk
       THEN Return(m, i, AddResult(AddRow(ops[m][i].tmp, owner[m],
                                          ParseArgs(ops[m][i].call).value, tz),
                                   getTotalExpensesByUserThisMonth(ledger, owner[m])))
       ELSE Return(m, i, Failure("Failed to save expense"))
  /\ UNCHANGED <<ledger, nextId>>
  /\ OpFrame

\* delete_expense without expenseId: await getLatestExpenses(userId, 1)
OpLatest(m, i) ==
  /\ ops[m][i].pc = "latest"
  /\ \E dbOk \in BOOLEAN :
       IF dbOk
       THEN LET latestExpenses == getLatestExpenses(ledger, owner[m])
            IN IF Len(latestExpenses) = 0
               THEN Return(m, i, Failure("No expenses found to delete"))
               ELSE Goto(m, i, "find", latestExpenses[1].id)
       ELSE Return(m, i, Failure("Failed to delete expense"))
  /\ UNCHANGED <<ledger, nextId>>
  /\ OpFrame

\* ExpenseService.deleteExpense: await expenseRepository.findOne(...)
OpFind(m, i) ==
  /\ ops[m][i].pc = "find"
  /\ \E dbOk \in BOOLEAN :
       IF dbOk
       THEN IF findOne(ledger, ops[m][i].tmp, owner[m]) = {}
            THEN Return(m, i, Failure("Expense not found or you do not have permission to delete it"))
            ELSE Goto(m, i, "remove", ops[m][i].tmp)
       ELSE Return(m, i, Failure("Failed to delete expense"))
  /\ UNCHANGED <<ledger, nextId>>
  /\ OpFrame

\* The success value of delete_expense.
DeleteResult(expenseId) == [success |-> TRUE, expenseId |-> expenseId]

\* ExpenseService.deleteExpense: await expenseRepository.remove(expense), a
\* DELETE by primary key; then `return true` and the success result.
OpRemove(m, i) ==
  /\ ops[m][i].pc = "remove"
  /\ \E dbOk \in BOOLEAN :
       IF dbOk
       THEN /\ ledger' = {r \in ledger : r.id # ops[m][i].tmp}
            /\ Return(m, i, DeleteResult(ops[m][i].tmp))
       ELSE /\ UNCHANGED ledger
            /\ Return(m, i, Failure("Failed to delete expense"))
  /\ UNCHANGED nextId
  /\ OpFrame

\* The value of get_total_expenses_this_month.
TotalResult(data) == [total |-> data.total, count |-> data.count, period |-> "this month"]

\* get_total_expenses_this_month: the query is awaited outside any try block.
OpTotal(m, i) ==
  /\ ops[m][i].pc = "total"
  /\ \E dbOk \in BOOLEAN :
       IF dbOk
       THEN Return(m, i, TotalResult(getTotalExpensesByUserThisMonth(ledger, owner[m])))
       ELSE Reject(m, i)
  /\ UNCHANGED <<ledger, nextId>>
  /\ OpFrame

\* categoryData.reduce((sum, item) => sum + item.total, 0)
RECURSIVE SumTotals(_)
SumTotals(cd) ==
  IF cd = {} THEN 0
  ELSE LET c == CHOOSE x \in cd : TRUE IN c.total + SumTotals(cd \ {c})

\* categoryData.reduce((sum, item) => sum + item.count, 0)
RECURSIVE SumCounts(_)
SumCounts(cd) ==
  IF cd = {} THEN 0
  ELSE LET c == CHOOSE x \in cd : TRUE IN c.count + SumCounts(cd \ {c})

\* Variant that builds the chart without looking at the data first.
ReportResultAlways(categoryData) ==
  [success |-> TRUE, chartUrl |-> ChartUrl, period |-> "this_month",
   categoryData |-> categoryData, total |-> SumTotals(categoryData),
   totalCount |-> SumCounts(categoryData)]

\* The value of generate_expense_report for the grouped expenses.
ReportResult(categoryData) ==
  IF categoryData = {}
  THEN Failure("No expenses found for the selected period")
  ELSE [success |-> TRUE, chartUrl |-> ChartUrl, period |-> "this_month",
        categoryData |-> categoryData, total |-> SumTotals(categoryData),
        totalCount |-> SumCounts(categoryData)]

\* generate_expense_report: await getExpensesByCategory, then the chart URL.
OpReport(m, i) ==
  /\ ops[m][i].pc = "report"
  /\ \E dbOk \in BOOLEAN :
       IF dbOk
       THEN Return(m, i, ReportResult(getExpensesByCategory(ledger, owner[m])))
       ELSE Return(m, i, Failure("Failed to generate report"))
  /\ UNCHANGED <<ledger, nextId>>
  /\ OpFrame

\* The value of get_total_expenses_today.
TodayResult(data) == [total |-> data.total, count |-> data.count, period |-> "today"]

\* get_total_expenses_today: the query is awaited outside any try block.
OpToday(m, i) ==
  /\ ops[m][i].pc = "today"
  /\ \E dbOk \in BOOLEAN :
       IF dbOk
       THEN Return(m, i, TodayResult(getTotalExpensesByUserToday(ledger, owner[m])))
       ELSE Reject(m, i)
  /\ UNCHANGED <<ledger, nextId>>
  /\ OpFrame

\* The range the date range cases query: startDate = parseLocalDate(startDate),
\* endDate = rangeArgs.endDate ? parseLocalDate(rangeArgs.endDate) : new Date()
RangeStart(args) == parseLocalDate(args.startDate)
RangeEnd(args) == IF Has(args, "endDate") THEN parseLocalDate(args.endDate) ELSE Today

\* The end date text of the result: rangeArgs.endDate || formatDate(endDate)
EndText(args) == IF Has(args, "endDate") THEN args.endDate ELSE formatDate(Today)

\* The value of get_expenses_by_date_range: the rows (amount, category, date),
\* their total and count, and the range as it was given.
RangeResult(expenses, args) ==
  [expenses |-> {[amount |-> r.amount, category |-> r.category,
                  date |-> formatDate(r.date)] : r \in expenses},
   total |-> SumAmounts(expenses), count |-> Cardinality(expenses),
   startDate |-> args.startDate, endDate |-> EndText(args)]

\* get_expenses_by_date_range: the query is awaited outside any try block.
OpRange(m, i) ==
  /\ ops[m][i].pc = "range"
  /\ \E dbOk \in BOOLEAN :
       LET args == ParseArgs(ops[m][i].call).value
       IN IF dbOk
          THEN Return(m, i, RangeResult(
                 getExpensesByUserAndDateRange(ledger, owner[m],
                                               RangeStart(args), RangeEnd(args)), args))
          ELSE Reject(m, i)
  /\ UNCHANGED <<ledger, nextId>>
  /\ OpFrame

\* The value of get_total_expenses_by_date_range without a category.
TotalRangeResult(expenses, args) ==
  [total |-> SumAmounts(expenses), count |-> Cardinality(expenses),
   startDate |-> args.startDate, endDate |-> EndText(args)]

\* get_total_expenses_by_date_range: the query is awaited outside any try block.
OpTotalRange(m, i) ==
  /\ ops[m][i].pc = "totalRange"
  /\ \E dbOk \in BOOLEAN :
       LET args == ParseArgs(ops[m][i].call).value
       IN IF dbOk
          THEN Return(m, i, TotalRangeResult(
                 getExpensesByUserAndDateRange(ledger, owner[m],
                                               RangeStart(args), RangeEnd(args)), args))
          ELSE Reject(m, i)
  /\ UNCHANGED <<ledger, nextId>>
  /\ OpFrame

\* generate_daily_expense_chart: explicit dates when both are given, else the
\* current month.
ChartStart(args) ==
  IF Has(args, "startDate") /\ Has(args, "endDate")
  THEN parseLocalDate(args.startDate) ELSE StartOfMonth(Today)
ChartEnd(args) ==
  IF Has(args, "startDate") /\ Has(args, "endDate")
  THEN parseLocalDate(args.endDate) ELSE EndOfMonth(Today)

\* dailyData.reduce((sum, item) => sum + item.total, 0)
RECURSIVE SumDaily(_)
SumDaily(dd) == IF dd = << >> THEN 0 ELSE Head(dd).total + SumDaily(Tail(dd))

\* The value of generate_daily_expense_chart for the grouped expenses: without
\* data the case returns before the chart service is called.
DailyResult(dailyData, args) ==
  IF Len(dailyData) = 0
  THEN Failure("No expenses found for the selected period")
  ELSE [success |-> TRUE, chartUrl |-> BarChartUrl, dailyData |-> dailyData,
        total |-> SumDaily(dailyData),
        startDate |-> formatDate(ChartStart(args)),
        endDate |-> formatDate(ChartEnd(args))]

\* generate_daily_expense_chart: await getDailyExpenses, then the chart URL.
OpDaily(m, i) ==
  /\ ops[m][i].pc = "daily"
  /\ \E dbOk \in BOOLEAN :
       LET args == ParseArgs(ops[m][i].call).value
       IN IF dbOk
          THEN Return(m, i, DailyResult(
                 getDailyExpenses(ledger, owner[m], ChartStart(args), ChartEnd(args)), args))
          ELSE Return(m, i, Failure("Failed to generate chart"))
  /\ UNCHANGED <<ledger, nextId>>
  /\ OpFrame

\* ------------------------------------------------------------------ round 2
\* Variant that goes on as soon as one callback has returned (Promise.race).
SomeSettled(m) ==
  \E i \in 1..Len(ops[m]) : ops[m][i].pc \in {"done", "skipped"}

\* Promise.all has resolved: every callback has returned (a tool message or null).
AllSettled(m) ==
  \A i \in 1..Len(ops[m]) : ops[m][i].pc \in {"done", "skipped"}

\* One tool message: { role: 'tool', tool_call_id, content: JSON.stringify(result) }
ToolMessage(m, i) ==
  [role |-> "tool", tool_call_id |-> ToolCallId(m, i),
   content |-> JSONstringify(ops[m][i].result)]

\* results.filter((r) => r !== null), in the order of toolCalls.
RECURSIVE ValidResults(_, _)
ValidResults(m, n) ==
  IF n = 0 THEN << >>
  ELSE IF ops[m][n].result = Null THEN ValidResults(m, n - 1)
  ELSE Append(ValidResults(m, n - 1), ToolMessage(m, n))

\* After Promise.all: the round-2 request with messageResponse and validResults.
Round2Call(m) ==
  /\ pc[m] = "executing"
  /\ AllSettled(m)
  /\ round2Req' = [round2Req EXCEPT ![m] = ValidResults(m, Len(ops[m]))]
  /\ r2Calls' = [r2Calls EXCEPT ![m] = @ + 1]
  /\ pc' = [pc EXCEPT ![m] = "round2"]
  /\ UNCHANGED <<ledger, nextId, opsIssued, owner, thrownBy, failed, r1Calls, r1Content,
                 ops, execCount, reply, outbound>>
  /\ UNCHANGED <<fmtVars, tz, grouped, responseContent>>

\* The round-2 call rejects.
Round2Fail(m) ==
  /\ pc[m] = "round2"
  /\ failed' = [failed EXCEPT ![m] = "round2"]
  /\ Caught(m, ops[m])
  /\ UNCHANGED <<ledger, nextId, opsIssued, owner, r1Calls, r2Calls, r1Content,
                 execCount>>
  /\ UNCHANGED <<fmtVars, tz, grouped, responseContent>>

\* The round-2 call resolves: parse the output into the returned envelope.
Round2Return(m) ==
  /\ pc[m] = "round2"
  /\ \E out \in Round2Outputs : Returns(m, ParseReply(out), ops[m])
  /\ UNCHANGED <<ledger, nextId, opsIssued, owner, failed, r1Calls, r2Calls, r1Content,
                 execCount>>
  /\ UNCHANGED <<fmtVars, tz, grouped, responseContent>>

\* ------------------------------------------------------------------ transport
\* sendWhatsappMessage: axios.post resolves or rejects; a rejection is caught and
\* logged. handleIncomingMessage then returns { status: 'processed' } or, from
\* its catch block, { status: 'error' }; what it held for the message is gone.
Delivered(m) ==
  /\ pc[m] \in {"sending", "sendingError"}
  /\ pc' = [pc EXCEPT ![m] = IF pc[m] = "sending" THEN "processed" ELSE "error"]
  /\ outbound' = [outbound EXCEPT ![m] = NoMessage]
  /\ reply' = [reply EXCEPT ![m] = NoEnvelope]
  /\ r1Content' = [r1Content EXCEPT ![m] = ""]
  /\ r1Calls' = [r1Calls EXCEPT ![m] = 0]
  /\ r2Calls' = [r2Calls EXCEPT ![m] = 0]
  /\ execCount' = [execCount EXCEPT ![m] = << >>]
  /\ failed' = [failed EXCEPT ![m] = "none"]
  /\ thrownBy' = [thrownBy EXCEPT ![m] = "none"]
  /\ UNCHANGED <<ledger, nextId, opsIssued, owner, ops, round2Req>>
  /\ UNCHANGED <<fmtVars, tz, grouped, responseContent>>

\* ------------------------------------------------------------------ specification
Next ==
  \/ \E m \in Msgs : Receive(m)
  \/ \E m \in Msgs : Round1Fail(m)
  \/ \E m \in Msgs : Round1Return(m)
  \/ \E m \in Msgs : \E i \in 1..Len(ops[m]) : OpLookup(m, i)
  \/ \E m \in Msgs : \E i \in 1..Len(ops[m]) : OpSave(m, i)
  \/ \E m \in Msgs : \E i \in 1..Len(ops[m]) : OpMonthly(m, i)
  \/ \E m \in Msgs : \E i \in 1..Len(ops[m]) : OpLatest(m, i)
  \/ \E m \in Msgs : \E i \in 1..Len(ops[m]) : OpFind(m, i)
  \/ \E m \in Msgs : \E i \in 1..Len(ops[m]) : OpRemove(m, i)
  \/ \E m \in Msgs : \E i \in 1..Len(ops[m]) : OpTotal(m, i)
  \/ \E m \in Msgs : \E i \in 1..Len(ops[m]) : OpReport(m, i)
  \/ \E m \in Msgs : Round2Call(m)
  \/ \E m \in Msgs : Round2Fail(m)
  \/ \E m \in Msgs : Round2Return(m)
  \/ \E m \in Msgs : Delivered(m)

vars == <<orchVars, fmtVars, tz, grouped, responseContent>>

Spec == Init /\ [][Next]_vars

\* ------------------------------------------------------------------ one request at a time
\* The same program under a schedule in which a message arrives only after the
\* earlier ones were answered and round 1 asks for exactly one operation, so
\* that each executeFunction call runs against a ledger nobody else touches.
\* The delivery is taken in two steps, the post and the return, so that the
\* outcome of the post can be told.
\* The server's time zone is fixed when the process starts.
InitExec ==
  /\ Idle
  /\ response = NoEnvelope
  /\ recipientId = "u1"
  /\ message = NoMessage
  /\ telegramMessage = NoMessage
  /\ tz \in TimeZones
  /\ grouped = NoQuery
  /\ responseContent = EmptyText

ReceiveNext(m) ==
  /\ \A k \in Msgs : k < m => pc[k] \in {"processed", "error"}
  /\ Receive(m)

\* The round-1 call resolves with one tool call: its map callback is started.
Round1One(m) ==
  /\ pc[m] = "round1"
  /\ opsIssued < MaxOps
  /\ \E k \in 1..Len(ExecMenu) :
       LET tcs == <<ExecMenu[k]>>
       IN /\ r1Content' = [r1Content EXCEPT ![m] = ""]
          /\ opsIssued' = opsIssued + 1
          /\ execCount' = [execCount EXCEPT ![m] = <<1>>]
          /\ pc' = [pc EXCEPT ![m] = "executing"]
          /\ ops' = [ops EXCEPT ![m] = StartOps(tcs)]
          /\ UNCHANGED <<reply, round2Req, thrownBy, failed, outbound>>
  /\ UNCHANGED <<ledger, nextId, owner, r1Calls, r2Calls>>
  /\ UNCHANGED <<fmtVars, tz, grouped, responseContent>>

\* Variant of sendWhatsappMessage without its catch block: a rejected post
\* reaches the catch block of handleIncomingMessage, which sends the error text.
SendRethrows(m) ==
  /\ pc[m] \in {"sending", "sendingError"}
  /\ \E sent \in BOOLEAN :
       IF sent
       THEN /\ pc' = [pc EXCEPT ![m] = IF pc[m] = "sending" THEN "sent" ELSE "errorSent"]
            /\ UNCHANGED outbound
       ELSE /\ pc' = [pc EXCEPT ![m] = "sendingError"]
            /\ outbound' = [outbound EXCEPT ![m] = ErrorMessage(owner[m])]
  /\ UNCHANGED <<ledger, nextId, opsIssued, owner, thrownBy, failed, r1Calls, r2Calls,
                 r1Content, ops, execCount, round2Req, reply>>
  /\ UNCHANGED <<fmtVars, tz, grouped, responseContent>>

\* await this.sendWhatsappMessage(...): axios.post resolves or rejects; the
\* rejection is caught and logged inside sendWhatsappMessage, which returns
\* normally either way.
Send(m) ==
  /\ pc[m] \in {"sending", "sendingError"}
  /\ \E sent \in BOOLEAN :
       pc' = [pc EXCEPT ![m] =
                IF pc[m] = "sending" THEN (IF sent THEN "sent" ELSE "sendFailed")
                ELSE (IF sent THEN "errorSent" ELSE "errorSendFailed")]
  /\ UNCHANGED <<ledger, nextId, opsIssued, owner, thrownBy, failed, r1Calls, r2Calls,
                 r1Content, ops, execCount, round2Req, reply, outbound>>
  /\ UNCHANGED <<fmtVars, tz, grouped, responseContent>>

\* handleIncomingMessage returns { status: 'processed' } or, from its catch
\* block, { status: 'error' }; what it held for the message is gone.
Complete(m) ==
  /\ pc[m] \in {"sent", "sendFailed", "errorSent", "errorSendFailed"}
  /\ pc' = [pc EXCEPT ![m] = IF pc[m] \in {"sent", "sendFailed"} THEN "processed" ELSE "error"]
  /\ outbound' = [outbound EXCEPT ![m] = NoMessage]
  /\ reply' = [reply EXCEPT ![m] = NoEnvelope]
  /\ r1Content' = [r1Content EXCEPT ![m] = ""]
  /\ r1Calls' = [r1Calls EXCEPT ![m] = 0]
  /\ r2Calls' = [r2Calls EXCEPT ![m] = 0]
  /\ execCount' = [execCount EXCEPT ![m] = << >>]
  /\ failed' = [failed EXCEPT ![m] = "none"]
  /\ thrownBy' = [thrownBy EXCEPT ![m] = "none"]
  /\ UNCHANGED <<ledger, nextId, opsIssued, owner, ops, round2Req>>
  /\ UNCHANGED <<fmtVars, tz, grouped, responseContent>>

NextExec ==
  \/ \E m \in Msgs : ReceiveNext(m)
  \/ \E m \in Msgs : Round1One(m)
  \/ \E m \in Msgs : \E i \in 1..Len(ops[m]) : OpLookup(m, i)
  \/ \E m \in Msgs : \E i \in 1..Len(ops[m]) : OpSave(m, i)
  \/ \E m \in Msgs : \E i \in 1..Len(ops[m]) : OpMonthly(m, i)
  \/ \E m \in Msgs : \E i \in 1..Len(ops[m]) : OpLatest(m, i)
  \/ \E m \in Msgs : \E i \in 1..Len(ops[m]) : OpFind(m, i)
  \/ \E m \in Msgs : \E i \in 1..Len(ops[m]) : OpRemove(m, i)
  \/ \E m \in Msgs : \E i \in 1..Len(ops[m]) : OpTotal(m, i)
  \/ \E m \in Msgs : \E i \in 1..Len(ops[m]) : OpReport(m, i)
  \/ \E m \in Msgs : \E i \in 1..Len(ops[m]) : OpToday(m, i)
  \/ \E m \in Msgs : \E i \in 1..Len(ops[m]) : OpRange(m, i)
  \/ \E m \in Msgs : \E i \in 1..Len(ops[m]) : OpTotalRange(m, i)
  \/ \E m \in Msgs : \E i \in 1..Len(ops[m]) : OpDaily(m, i)
  \/ \E m \in Msgs : Round2Call(m)
  \/ \E m \in Msgs : Round2Return(m)
  \/ \E m \in Msgs : Send(m)
  \/ \E m \in Msgs : Complete(m)

SpecExec == InitExec /\ [][NextExec]_vars

\* ------------------------------------------------------------------ ledger service queries
\* The grouping and period queries of ExpenseService, applied to the rows the
\* expense table may hold. Categories are the texts as stored: the table is
\* also read for rows written before createExpense lower-cased and trimmed
\* them, which is what the normalisation inside the grouping is for. One query
\* is made on each table.
MaxRows == 2

RowCategories ==
  {<< >>, <<"F", "o", "o", "d">>, <<" ", "f", "O", "O", "D", " ">>, <<"f", "u", "e", "l">>}

RowDates ==
  {DateText(2025, 11, 15), DateText(2025, 11, 16), DateText(2025, 11, 18),
   DateText(2025, 11, 23)}

\* The ranges getDailyExpenses is asked for.
DailyRanges ==
  {<<DateText(2025, 11, 16), DateText(2025, 11, 18)>>,
   <<DateText(2025, 11, 1), DateText(2025, 11, 30)>>}

\* Row k of the table: amounts differ from row to row.
Row(k, userId, category, date) ==
  [id |-> k, owner |-> userId, amount |-> 2 * k + 1, category |-> category, date |-> date]

InitGroup ==
  /\ \E f \in [1..MaxRows -> Owners \X RowCategories \X RowDates] :
       ledger = {Row(k, f[k][1], f[k][2], f[k][3]) : k \in 1..MaxRows}
  /\ nextId = MaxRows + 1
  /\ opsIssued = 0
  /\ pc = [m \in Msgs |-> "idle"]
  /\ owner = [m \in Msgs |-> "u1"]
  /\ thrownBy = [m \in Msgs |-> "none"]
  /\ failed = [m \in Msgs |-> "none"]
  /\ r1Calls = [m \in Msgs |-> 0]
  /\ r2Calls = [m \in Msgs |-> 0]
  /\ r1Content = [m \in Msgs |-> ""]
  /\ ops = [m \in Msgs |-> << >>]
  /\ execCount = [m \in Msgs |-> << >>]
  /\ round2Req = [m \in Msgs |-> << >>]
  /\ reply = [m \in Msgs |-> NoEnvelope]
  /\ outbound = [m \in Msgs |-> NoMessage]
  /\ response = NoEnvelope
  /\ recipientId = "u1"
  /\ message = NoMessage
  /\ telegramMessage = NoMessage
  /\ tz = 0
  /\ grouped = NoQuery
  /\ responseContent = EmptyText

\* getExpensesByCategory(userId, period) is called and returns.
QueryByCategory ==
  /\ grouped = NoQuery
  /\ \E u \in Owners, period \in {"this_month", "this_week", "all_time"} :
       grouped' = [op |-> "getExpensesByCategory", userId |-> u, period |-> period,
                   value |-> getExpensesByCategoryFor(ledger, u, period)]
  /\ UNCHANGED <<orchVars, fmtVars, tz, responseContent>>

\* getDailyExpenses(userId, startDate, endDate) is called and returns.
QueryDaily ==
  /\ grouped = NoQuery
  /\ \E u \in Owners, range \in DailyRanges :
       grouped' = [op |-> "getDailyExpenses", userId |-> u,
                   startDate |-> range[1], endDate |-> range[2],
                   value |-> getDailyExpenses(ledger, u, range[1], range[2])]
  /\ UNCHANGED <<orchVars, fmtVars, tz, responseContent>>

\* getTotalExpensesByUserThisWeek(userId) is called and returns.
QueryThisWeek ==
  /\ grouped = NoQuery
  /\ \E u \in Owners :
       grouped' = [op |-> "getTotalExpensesByUserThisWeek", userId |-> u,
                   value |-> getTotalExpensesByUserThisWeek(ledger, u)]
  /\ UNCHANGED <<orchVars, fmtVars, tz, responseContent>>

NextGroup ==
  \/ QueryByCategory
  \/ QueryDaily
  \/ QueryThisWeek

SpecGroup == InitGroup /\ [][NextGroup]_vars

\* ------------------------------------------------------------------ round-2 parsing
\* The texts round 2 may answer with: texts that are not JSON, the empty text,
\* and JSON objects with every combination of present and absent fields.
Round2Texts ==
  {NotJson(t) : t \in {"Done, saved!", "{\"format\":", ""}}
    \cup {JSONstringify(Parsed(f, c, n, img, cap)) :
            f \in {Undefined, "text", "template", "Template", "image"},
            c \in {Undefined, "", "Saved."},
            n \in {Undefined, "not_approved"},
            img \in {Undefined, "", ChartUrl},
            cap \in {Undefined, "Chart"}}

InitParse ==
  /\ Idle
  /\ response = NoEnvelope
  /\ recipientId = "u1"
  /\ message = NoMessage
  /\ telegramMessage = NoMessage
  /\ tz = 0
  /\ grouped = NoQuery
  /\ responseContent \in Round2Texts

\* The round-2 text is parsed into the envelope processMessageWithTools returns.
ParseRound2 ==
  /\ response = NoEnvelope
  /\ response' = ParseReply(responseContent)
  /\ UNCHANGED <<orchVars, recipientId, message, telegramMessage, tz, grouped,
                 responseContent>>

NextParse == ParseRound2

SpecParse == InitParse /\ [][NextParse]_vars

\* ------------------------------------------------------------------ formatters
\* key.startsWith('_'), a key being a sequence of characters
startsWithUnderscore(key) == Len(key) > 0 /\ key[1] = "_"

\* String(value) for a number or a string.
String(value) == IF value.type = "number" THEN ToString(value.n) ELSE value.s

\* .filter(([key]) => !key.startsWith('_')).map(([, value]) => ({type, text})),
\* over Object.entries(params) in order.
RECURSIVE bodyParams(_)
bodyParams(entries) ==
  IF entries = << >> THEN << >>
  ELSE IF startsWithUnderscore(Head(entries).key) THEN bodyParams(Tail(entries))
  ELSE <<[type |-> "text", text |-> String(Head(entries).value)]>>
         \o bodyParams(Tail(entries))

\* WhatsAppFormatter.buildTemplateComponents; << >> stands for undefined (the
\* code never returns an empty array).
buildTemplateComponents(params) ==
  IF params = << >> THEN << >>
  ELSE IF bodyParams(params) = << >> THEN << >>
  ELSE <<[type |-> "body", parameters |-> bodyParams(params)]>>

\* WhatsAppFormatter.formatText
formatText(resp, to) ==
  [messaging_product |-> "whatsapp", to |-> to, type |-> "text",
   text |-> [body |-> resp.content]]

\* Variant without the fallback to text: a template message whatever the name.
formatTemplateAlways(resp, to) ==
  [messaging_product |-> "whatsapp", to |-> to, type |-> "template",
   template |-> [name |-> resp.templateName, language |-> [code |-> "en_US"],
                 components |-> buildTemplateComponents(resp.templateParams)]]

\* WhatsAppFormatter.formatTemplate
formatTemplate(resp, to) ==
  IF Falsy(resp.templateName)
  THEN formatText(TextEnvelope(resp.content), to)
  ELSE [messaging_product |-> "whatsapp", to |-> to, type |-> "template",
        template |-> [name |-> resp.templateName, language |-> [code |-> "en_US"],
                      components |-> buildTemplateComponents(resp.templateParams)]]

\* WhatsAppFormatter.format
format(resp, to) ==
  IF resp.format = "template" THEN formatTemplate(resp, to) ELSE formatText(resp, to)

\* TelegramFormatter.format
telegramFormat(resp, chatId) == [chat_id |-> chatId, text |-> resp.content]

\* The template names the prompt calls approved.
ApprovedTemplates == {"hello_world", "sample_shipping_confirmation", "sample_issue_resolution"}

\* Object.entries of the templateParams the formatters are given.
ParamSets ==
  { << >>,
    <<[key |-> <<"n">>, value |-> [type |-> "string", s |-> "Al"]]>>,
    <<[key |-> <<"_", "i", "d">>, value |-> [type |-> "number", n |-> 7]]>>,
    <<[key |-> <<"_", "i", "d">>, value |-> [type |-> "number", n |-> 7]],
      [key |-> <<"n">>, value |-> [type |-> "number", n |-> 12]]>> }

\* The envelopes the formatters are given.
FmtEnvelopes ==
  { Envelope(f, c, tn, tp, img, cap) :
      f \in {"text", "template", "markdown"},
      c \in {"", "Total: 7"},
      tn \in {Undefined, "", "hello_world", "not_approved"},
      tp \in ParamSets,
      img \in {Undefined, ChartUrl},
      cap \in {Undefined, "Chart"} }

InitFmt ==
  /\ Idle
  /\ response \in FmtEnvelopes
  /\ recipientId \in Owners
  /\ message = NoMessage
  /\ telegramMessage = NoMessage
  /\ tz = 0
  /\ grouped = NoQuery
  /\ responseContent = EmptyText

FormatWhatsApp ==
  /\ message = NoMessage
  /\ message' = format(response, recipientId)
  /\ UNCHANGED <<response, recipientId, telegramMessage, orchVars, tz, grouped, responseContent>>

FormatTelegram ==
  /\ telegramMessage = NoMessage
  /\ telegramMessage' = telegramFormat(response, recipientId)
  /\ UNCHANGED <<response, recipientId, message, orchVars, tz, grouped, responseContent>>

NextFmt == FormatWhatsApp \/ FormatTelegram

SpecFmt == InitFmt /\ [][NextFmt]_vars

\* ------------------------------------------------------------------ properties
\* C1: processMessageWithTools never throws: when a round-1 or round-2 call
\* fails, or executing a tool call (parsing its arguments included) throws, it
\* returns the text envelope with the fixed fallback content.
C1_NeverThrows ==
  \A m \in Msgs :
    /\ thrownBy[m] # "processMessageWithTools"
    /\ failed[m] # "none" =>
         /\ pc[m] = "sending"
         /\ reply[m].format = "text"
         /\ reply[m].content =
              "Sorry, I encountered an error processing your request. Please try again."
         /\ Falsy(reply[m].imageUrl)

\* An operation threw while another one of the same response was still running.
C1_Witness ==
  \E m \in Msgs :
    /\ failed[m] = "execute"
    /\ reply[m] = FallbackEnvelope
    /\ \E i \in 1..Len(ops[m]) : ~Settled(ops[m][i])

\* C2: when round 1 returns no tool calls, no operation is executed, round 2 is
\* not issued, and the envelope is text with the round-1 content, or the help
\* text when that content is empty.
C2_DirectText ==
  \A m \in Msgs :
    (pc[m] = "sending" /\ failed[m] = "none" /\ execCount[m] = << >>) =>
      /\ ops[m] = << >>
      /\ r2Calls[m] = 0
      /\ reply[m].format = "text"
      /\ reply[m].content = (IF r1Content[m] \in {"", Undefined} THEN HelpText
                             ELSE r1Content[m])
      /\ Falsy(reply[m].imageUrl) /\ Falsy(reply[m].templateName)

\* A direct reply with empty round-1 content.
C2_Witness ==
  \E m \in Msgs :
    /\ pc[m] = "sending" /\ failed[m] = "none" /\ execCount[m] = << >>
    /\ r1Content[m] = ""
    /\ reply[m].content = HelpText

\* The tool messages of the round-2 request of message m that answer tool call i.
ResultsFor(m, i) ==
  {k \in 1..Len(round2Req[m]) : round2Req[m][k].tool_call_id = ToolCallId(m, i)}

\* C3: in the round-2 request every tool call of the round-1 response has
\* exactly one result message, carrying its id, and no result message carries
\* an id round 1 did not issue, whatever the number and kind of tool calls.
C3_OneResultPerRequest ==
  \A m \in Msgs :
    pc[m] = "round2" =>
      /\ \A i \in 1..Len(ops[m]) : Cardinality(ResultsFor(m, i)) = 1
      /\ \A k \in 1..Len(round2Req[m]) :
           \E i \in 1..Len(ops[m]) : round2Req[m][k].tool_call_id = ToolCallId(m, i)

\* A tool call executeFunction is called for: a function call whose arguments parse.
Executable(tc) == tc.type = "function" /\ ~ParseArgs(tc).threw

\* C4: for one message at most one round-1 call and at most one round-2 call
\* are made, and each operation request is executed exactly once; a failed
\* call or a Failure result causes no second attempt.
C4_NoRetry ==
  \A m \in Msgs :
    /\ r1Calls[m] <= 1
    /\ r2Calls[m] <= 1
    /\ \A i \in 1..Len(execCount[m]) : execCount[m][i] <= 1
    /\ pc[m] \notin {"idle", "sendingError", "error", "processed"} => r1Calls[m] = 1
    /\ pc[m] \in {"executing", "round2"} =>
         /\ Len(execCount[m]) = Len(ops[m])
         /\ \A i \in 1..Len(ops[m]) :
              Executable(ops[m][i].call) => execCount[m][i] = 1
    /\ pc[m] = "sending" /\ failed[m] # "none" =>
         r2Calls[m] = (IF failed[m] = "round2" THEN 1 ELSE 0)

\* Round 2 is asked with a Failure result among the tool messages.
C4_Witness ==
  \E m \in Msgs :
    /\ pc[m] = "round2"
    /\ \E i \in 1..Len(ops[m]) :
         /\ ops[m][i].result = Failure("Failed to save expense")
         /\ execCount[m][i] = 1

\* C5: round 2 of a message is issued only after its round 1 has returned and
\* every tool call of round 1 has finished; the round trips of two messages
\* interleave without one's round 2 receiving the other's results.
C5_Round2AfterOps ==
  \A m \in Msgs :
    /\ r2Calls[m] > 0 => pc[m] \in {"round2", "sending"} /\ r1Calls[m] = 1
    /\ pc[m] = "round2" =>
         /\ \A i \in 1..Len(ops[m]) : ops[m][i].pc \in {"done", "skipped"}
         /\ \A k \in 1..Len(round2Req[m]) :
              LET id == round2Req[m][k].tool_call_id
              IN /\ id[1] = m
                 /\ id[2] \in 1..Len(ops[m])
                 /\ round2Req[m][k].content = JSONstringify(ops[m][id[2]].result)
                 /\ ops[m][id[2]].result # Pending

\* Both messages wait for round 2 at the same time, each with a result.
C5_Witness ==
  /\ pc[1] = "round2" /\ pc[2] = "round2"
  /\ Len(round2Req[1]) > 0 /\ Len(round2Req[2]) > 0
  /\ owner[1] = owner[2]

\* One tool call executed alone, start to end, on state st.
SeqStep(st, u, tc) ==
  IF tc.type # "function"
  THEN [st EXCEPT !.results = Append(@, Null)]
  ELSE IF tc.name = "add_expense"
  THEN LET expense == createExpense(st.nextId, u, ParseArgs(tc).value.amount, << >>, Today)
           led == st.ledger \cup {expense}
       IN [ledger |-> led, nextId |-> st.nextId + 1,
           results |-> Append(st.results,
                         AddResult(expense, getTotalExpensesByUserThisMonth(led, u)))]
  ELSE IF tc.name = "delete_expense"
  THEN LET latestExpenses == getLatestExpenses(st.ledger, u)
       IN IF Len(latestExpenses) = 0
          THEN [st EXCEPT !.results = Append(@, Failure("No expenses found to delete"))]
          ELSE [st EXCEPT !.ledger = {r \in @ : r.id # latestExpenses[1].id},
                          !.results = Append(@, DeleteResult(latestExpenses[1].id))]
  ELSE IF tc.name = "get_total_expenses_this_month"
  THEN [st EXCEPT !.results =
          Append(@, TotalResult(getTotalExpensesByUserThisMonth(st.ledger, u)))]
  ELSE [st EXCEPT !.results =
          Append(@, ReportResult(getExpensesByCategory(st.ledger, u)))]

\* The first n tool calls of message m executed one after the other.
RECURSIVE SeqExec(_, _)
SeqExec(m, n) ==
  IF n = 0 THEN [ledger |-> {SeedRecord}, nextId |-> 2, results |-> << >>]
  ELSE SeqStep(SeqExec(m, n - 1), owner[m], ops[m][n].call)

\* A database call of one of message m's operations failed.
DbFailure(m) ==
  \E i \in 1..Len(ops[m]) :
    ops[m][i].result \in {Failure("Failed to save expense"),
                          Failure("Failed to delete expense"),
                          Failure("Failed to generate report")}

\* C6: the tool calls of one round-1 response are independent: whatever the
\* interleaving of their executions, the collected results and the ledger are
\* those of executing them one after the other.
C6_Independent ==
  (pc[1] = "round2" /\ pc[2] = "idle" /\ ~DbFailure(1)) =>
    /\ ledger = SeqExec(1, Len(ops[1])).ledger
    /\ [i \in 1..Len(ops[1]) |-> ops[1][i].result] = SeqExec(1, Len(ops[1])).results

\* A result among the tool messages of the round-2 request has a chartUrl field.
HasChartUrl(m) ==
  \E k \in 1..Len(round2Req[m]) : "chartUrl" \in DOMAIN round2Req[m][k].content.value

\* C7: when a result of the message has a chartUrl field, the envelope the
\* orchestrator returns carries it as imageUrl, whatever round 2 answers.
C7_ChartSurfaced ==
  [][\A m \in Msgs :
       (pc[m] = "round2" /\ HasChartUrl(m) /\ pc'[m] = "sending" /\ failed'[m] = "none")
         => reply'[m].imageUrl = ChartUrl]_vars

\* C8: for every content and recipient, format of a template envelope without
\* templateName is the very message format gives for the text envelope with
\* the same content.
C8_TemplateWithoutName ==
  (message # NoMessage /\ response.format = "template" /\ Falsy(response.templateName)) =>
    /\ message = format(Envelope("text", response.content, Undefined, << >>,
                                 Undefined, Undefined), recipientId)
    /\ message = [messaging_product |-> "whatsapp", to |-> recipientId, type |-> "text",
                  text |-> [body |-> response.content]]

\* A template envelope with params but no name has been formatted.
C8_Witness ==
  /\ message # NoMessage
  /\ response.format = "template" /\ response.templateName = Undefined
  /\ response.templateParams # << >>
  /\ message.type = "text"

\* C9: a template envelope whose templateName is not a pre-approved name is
\* treated as text: no template message with that name is emitted, a text
\* message with its content is.
C9_UnapprovedIsText ==
  (message # NoMessage /\ response.format = "template"
     /\ response.templateName \notin ApprovedTemplates) =>
    /\ message.type = "text"
    /\ message.text.body = response.content

\* C10: an envelope with an imageUrl, whatever its format, gives an image
\* message with that link and the caption (the content when there is no
\* caption), and no text or template message.
C10_ImageMessage ==
  (message # NoMessage /\ ~Falsy(response.imageUrl)) =>
    /\ message.type = "image"
    /\ message.image.link = response.imageUrl
    /\ message.image.caption =
         (IF Falsy(response.caption) THEN response.content ELSE response.caption)

\* ------------------------------------------------------------------ executeFunction properties
\* C11: executeFunction never lets an exception of a collaborator escape: when
\* the user lookup, a ledger query or write, or the chart service throws, it
\* returns a Failure; so the execution of a tool call never rejects.
C11_NoEscape == \A m \in Msgs : failed[m] # "execute"

\* The request lacks an argument its operation requires.
LacksRequired(tc) ==
  \/ tc.name = "add_expense" /\ ~Has(ParseArgs(tc).value, "amount")
  \/ /\ tc.name \in {"get_expenses_by_date_range", "get_total_expenses_by_date_range"}
     /\ ~Has(ParseArgs(tc).value, "startDate")

\* A returned value that reports a failure.
IsFailure(result) == Has(result, "success") /\ result.success = FALSE

\* C12: a request that lacks a required argument (amount for add_expense,
\* startDate for the two date range operations) yields a Failure: its execution
\* does not throw and leaves the ledger unchanged.
C12_MissingArgument ==
  [][\A m \in Msgs : \A i \in 1..Len(ops[m]) :
       LacksRequired(ops[m][i].call) =>
         /\ failed'[m] = "execute" => failed[m] = "execute"
         /\ ledger' = ledger
         /\ (Len(ops'[m]) >= i /\ ops'[m][i].pc = "done") => IsFailure(ops'[m][i].result)
    ]_vars

\* The records of a user, and the one created last.
RecordsOf(led, userId) == {r \in led : r.owner = userId}
Newest(rs) == CHOOSE r \in rs : \A q \in rs : q.id <= r.id

\* The record a delete_expense request of userId is aimed at, as a set: the
\* owner's record with the given id, or the owner's newest record.
DeleteTarget(led, userId, args) ==
  IF Has(args, "expenseId")
  THEN {r \in RecordsOf(led, userId) : r.id = args.expenseId}
  ELSE IF RecordsOf(led, userId) = {} THEN {} ELSE {Newest(RecordsOf(led, userId))}

\* C13: delete_expense without an id removes exactly the owner's most recently
\* created record and no other; with an id, exactly the owner's record of that
\* id. When the owner has no record, or the id is absent from the ledger or
\* belongs to another owner, it fails and removes nothing.
C13_DeleteLatest ==
  [][\A m \in Msgs : \A i \in 1..Len(ops[m]) :
       LET op == ops[m][i]
           target == DeleteTarget(ledger, owner[m], ParseArgs(op.call).value)
           returns == Len(ops'[m]) >= i /\ ops'[m][i].pc = "done" /\ op.pc # "done"
       IN op.call.name = "delete_expense" =>
            /\ (returns /\ ~IsFailure(ops'[m][i].result)) =>
                 /\ target # {}
                 /\ ledger' = ledger \ target
                 /\ ops'[m][i].result = DeleteResult((CHOOSE r \in target : TRUE).id)
            /\ (returns /\ IsFailure(ops'[m][i].result)) => ledger' = ledger
            /\ (returns /\ target = {}) => IsFailure(ops'[m][i].result)
            /\ ~returns => ledger' = ledger
    ]_vars

\* The owner of two records asked to delete the latest one: the newer record
\* is gone and the older one is still in the ledger.
C13_Witness ==
  \E m \in Msgs :
    /\ Len(ops[m]) = 1 /\ ops[m][1].call = DeleteLatestCall /\ owner[m] = "u1"
    /\ ops[m][1].result = DeleteResult(2)
    /\ ledger = {SeedRecord}

\* C15: every ledger record accepted through add_expense has an amount greater
\* than zero: a request with a zero or negative amount creates no record.
C15_PositiveAmounts == \A r \in ledger : r.amount > 0

\* C14: every successful add_expense of amount a without a date returns a
\* monthlyTotal of at least a and a monthlyCount of at least 1, whatever the
\* ledger was before.
C14_MonthlySummary ==
  \A m \in Msgs : \A i \in 1..Len(ops[m]) :
    LET op == ops[m][i]
        args == ParseArgs(op.call).value
    IN (op.call.name = "add_expense" /\ ~Has(args, "date")
          /\ op.pc = "done" /\ ~IsFailure(op.result)) =>
         /\ op.result.monthlyTotal >= args.amount
         /\ op.result.monthlyCount >= 1

\* The owner's records dated within start..end.
RecordsWithin(led, userId, start, end) ==
  {r \in led : r.owner = userId /\ DateLE(start, r.date) /\ DateLE(r.date, end)}

\* The records of the period a chart request of userId covers.
ChartRecords(led, userId, tc) ==
  IF tc.name = "generate_expense_report"
  THEN RecordsWithin(led, userId, StartOfMonth(Today), EndOfMonth(Today))
  ELSE RecordsWithin(led, userId, ChartStart(ParseArgs(tc).value),
                     ChartEnd(ParseArgs(tc).value))

TodayRecords(led, userId) == {r \in led : r.owner = userId /\ r.date = Today}

\* C17: get_total_expenses_today returns the sum and the count of the owner's
\* records dated today; when there are none it returns exactly total 0 and
\* count 0.
C17_TodayTotal ==
  \A m \in Msgs : \A i \in 1..Len(ops[m]) :
    LET op == ops[m][i]
        mine == TodayRecords(ledger, owner[m])
    IN (op.call.name = "get_total_expenses_today" /\ op.pc = "done") =>
         /\ op.result.total = SumAmounts(mine)
         /\ op.result.count = Cardinality(mine)
         /\ mine = {} => op.result = [total |-> 0, count |-> 0, period |-> "today"]

\* Today's total was asked for by an owner without a record dated today while
\* the ledger holds a record of today of somebody else, and the request has
\* returned zero and zero.
C17_Witness ==
  \E m \in Msgs :
    /\ Len(ops[m]) = 1 /\ ops[m][1].call = TodayTotalCall /\ ops[m][1].pc = "done"
    /\ TodayRecords(ledger, owner[m]) = {}
    /\ \E r \in ledger : r.date = Today
    /\ ops[m][1].result.total = 0 /\ ops[m][1].result.count = 0

\* C18: an add_expense request with an explicit date D is stored with the
\* calendar date D, so that a later range query with startDate = endDate = D
\* returns the record, in every time zone of the server.
C18_ExplicitDate ==
  \A m \in Msgs : \A i \in 1..Len(ops[m]) :
    LET op == ops[m][i]
        args == ParseArgs(op.call).value
    IN (op.call.name = "add_expense" /\ Has(args, "date")
          /\ op.pc = "done" /\ ~IsFailure(op.result)) =>
         /\ op.result.expense.date = args.date
         /\ \E r \in getExpensesByUserAndDateRange(ledger, owner[m],
                       parseLocalDate(args.date), parseLocalDate(args.date)) :
              r.id = op.tmp

\* C19: a range operation (get_expenses_by_date_range,
\* get_total_expenses_by_date_range, generate_daily_expense_chart with explicit
\* dates) whose start date is after its end date fails with a Failure instead
\* of returning a result: every range that is queried has start <= end.
C19_RangeOrder ==
  \A m \in Msgs : \A i \in 1..Len(ops[m]) :
    LET op == ops[m][i]
        args == ParseArgs(op.call).value
    IN (op.call.name \in {"get_expenses_by_date_range", "get_total_expenses_by_date_range",
                          "generate_daily_expense_chart"}
          /\ Has(args, "startDate") /\ Has(args, "endDate")
          /\ ~DateLE(parseLocalDate(args.startDate), parseLocalDate(args.endDate))
          /\ op.pc = "done") =>
         IsFailure(op.result)

\* A date argument of the request does not name a calendar date.
HasImpossibleDate(args) ==
  \E key \in {"startDate", "endDate", "date"} :
    Has(args, key) /\ ~IsCalendarDate(args[key])

\* C20: a date text that names an impossible date (month 13, day 32,
\* 30 February) is refused with a Failure: the request never goes on with a
\* rolled-over date.
C20_ImpossibleDate ==
  \A m \in Msgs : \A i \in 1..Len(ops[m]) :
    LET op == ops[m][i]
    IN (HasImpossibleDate(ParseArgs(op.call).value) /\ op.pc = "done") =>
         IsFailure(op.result)

\* ------------------------------------------------------------------ ledger service properties
\* A category text without its leading and trailing blanks, letters in lower
\* case; absent and blank texts are no category.
RECURSIVE StripLeft(_)
StripLeft(s) == IF s # << >> /\ Head(s) = " " THEN StripLeft(Tail(s)) ELSE s
RECURSIVE StripRight(_)
StripRight(s) ==
  IF s # << >> /\ s[Len(s)] = " " THEN StripRight(SubSeq(s, 1, Len(s) - 1)) ELSE s
Lower(c) == IF c = "F" THEN "f" ELSE IF c = "O" THEN "o" ELSE IF c = "D" THEN "d" ELSE c
Folded(category) ==
  LET t == StripRight(StripLeft(category)) IN [k \in 1..Len(t) |-> Lower(t[k])]

\* The entries of a grouping whose bucket holds the record.
BucketsOf(value, r) ==
  {e \in value : e.category = (IF r.category = << >> THEN Uncategorized ELSE Folded(r.category))}

\* C21: category grouping puts two records whose categories differ only by
\* letter case or by leading or trailing blanks in the same bucket, puts a
\* record without category in the bucket 'uncategorized', and the totals and
\* counts of the buckets add up to the sum of the amounts and to the number of
\* the grouped records.
C21_CategoryBuckets ==
  grouped.op = "getExpensesByCategory" =>
    LET expenses == {r \in ledger : r.owner = grouped.userId
                       /\ (grouped.period = "this_month" => r.date.m = Today.m /\ r.date.y = Today.y)
                       /\ (grouped.period = "this_week" =>
                             DateLE(StartOfWeek(Today), r.date) /\ DateLE(r.date, EndOfWeek(Today)))}
    IN /\ \A r \in expenses : Cardinality(BucketsOf(grouped.value, r)) = 1
       /\ \A e \in grouped.value :
            /\ e.total = SumAmounts({r \in expenses : e \in BucketsOf(grouped.value, r)})
            /\ e.count = Cardinality({r \in expenses : e \in BucketsOf(grouped.value, r)})
            /\ e.count >= 1
       /\ \A e1, e2 \in grouped.value : e1.category = e2.category => e1 = e2
       /\ SumTotals(grouped.value) = SumAmounts(expenses)
       /\ SumCounts(grouped.value) = Cardinality(expenses)

\* 'Food' and ' fOOD ' of one owner were grouped into the one bucket 'food'.
C21_Witness ==
  /\ grouped.op = "getExpensesByCategory" /\ grouped.period = "all_time"
  /\ \E r1, r2 \in ledger :
       /\ r1.owner = grouped.userId /\ r2.owner = grouped.userId
       /\ r1.category = <<"F", "o", "o", "d">>
       /\ r2.category = <<" ", "f", "O", "O", "D", " ">>
  /\ grouped.value = {[category |-> <<"f", "o", "o", "d">>, total |-> 8, count |-> 2]}

\* The owner's records of the range a day grouping was asked for.
DailyRecords ==
  {r \in ledger : r.owner = grouped.userId
     /\ DateLE(grouped.startDate, r.date) /\ DateLE(r.date, grouped.endDate)}

\* C22: day grouping returns one entry per calendar date that has at least one
\* record in the range, in strictly ascending date order without a duplicate
\* date, and no entry for a date without records.
C22_DailyEntries ==
  grouped.op = "getDailyExpenses" =>
    LET value == grouped.value
    IN /\ {value[k].date : k \in 1..Len(value)} = {r.date : r \in DailyRecords}
       /\ \A k \in 1..(Len(value) - 1) :
            DateLE(value[k].date, value[k + 1].date) /\ value[k].date # value[k + 1].date
       /\ \A k \in 1..Len(value) :
            /\ value[k].count = Cardinality({r \in DailyRecords : r.date = value[k].date})
            /\ value[k].total = SumAmounts({r \in DailyRecords : r.date = value[k].date})
            /\ value[k].count >= 1

\* A three-day range with records on its first and third day only was grouped
\* into exactly two entries, the earlier day first.
C22_Witness ==
  /\ grouped.op = "getDailyExpenses"
  /\ grouped.startDate = DateText(2025, 11, 16) /\ grouped.endDate = DateText(2025, 11, 18)
  /\ {r.date : r \in DailyRecords} = {DateText(2025, 11, 16), DateText(2025, 11, 18)}
  /\ Len(grouped.value) = 2
  /\ grouped.value[1].date = DateText(2025, 11, 16)
  /\ grouped.value[2].date = DateText(2025, 11, 18)

\* The owner's records dated within the seven days that start on the day of
\* this week whose day index is 0.
WeekRecords ==
  {r \in ledger : r.owner = grouped.userId
     /\ \E k \in 0..6 :
          r.date = MakeDate(Today.y, Today.m, Today.d - getDay(Today) + k)}

\* C26: the total of this week, and the report of this week, count only
\* records dated within the seven calendar days that start on the week's
\* day-index-0 day: a record dated on the first day of the following week is
\* never counted.
C26_SevenDayWeek ==
  /\ grouped.op = "getTotalExpensesByUserThisWeek" =>
       /\ grouped.value.count = Cardinality(WeekRecords)
       /\ grouped.value.total = SumAmounts(WeekRecords)
  /\ (grouped.op = "getExpensesByCategory" /\ grouped.period = "this_week") =>
       /\ SumCounts(grouped.value) = Cardinality(WeekRecords)
       /\ SumTotals(grouped.value) = SumAmounts(WeekRecords)

\* ------------------------------------------------------------------ round-2 parsing properties
\* C23: when the round-2 text cannot be parsed as JSON, the returned envelope
\* has format text and the raw text as content, and carries no templateName
\* and no imageUrl; when it parses, the format is template only if the parsed
\* format is exactly 'template', and text otherwise.
C23_Round2Parse ==
  response # NoEnvelope =>
    IF ~responseContent.json /\ responseContent.value # ""
    THEN /\ response.format = "text"
         /\ response.content = responseContent.value
         /\ response.templateName = Undefined
         /\ response.imageUrl = Undefined
    ELSE IF responseContent.json
    THEN response.format =
           (IF responseContent.value.format = "template" THEN "template" ELSE "text")
    ELSE response.format = "text"

\* A round-2 text that is not JSON has been parsed into a text envelope.
C23_Witness ==
  /\ responseContent = NotJson("Done, saved!")
  /\ response = TextEnvelope("Done, saved!")

\* ------------------------------------------------------------------ delivery properties
\* C24: a failed delivery of the outbound message does not undo the ledger
\* mutation the message caused: once the reply is handed to the transport,
\* the ledger stays as add_expense or delete_expense left it whether the post
\* succeeds or fails, and handleIncomingMessage completes with its status
\* instead of throwing.
C24_NoRollback ==
  [][\A m \in Msgs :
       /\ pc[m] \in {"sending", "sent", "sendFailed"} => ledger' = ledger
       /\ (pc[m] = "sending" /\ pc'[m] # "sending") => pc'[m] \in {"sent", "sendFailed"}
       /\ (pc[m] = "sendFailed" /\ pc'[m] # "sendFailed") => pc'[m] = "processed"
    ]_vars

\* The first message added a record, the post of its reply failed, and the
\* record is in the ledger.
C24_Witness ==
  /\ pc[1] = "sendFailed" /\ pc[2] = "idle"
  /\ \E r \in ledger : r.id = 2 /\ r.owner = owner[1]
  /\ nextId = 3

\* handleIncomingMessage has returned for the message.
Finished(m) == pc[m] \in {"processed", "error"}

\* C25: every inbound text message ends in exactly one attempted outbound
\* message to its sender (the reply, an image with caption, or the error
\* text), whichever of user lookup, round 1, operation execution or round 2
\* fails: handleIncomingMessage returns only after a message to the sender was
\* handed to the transport, that message is not replaced by another one, and
\* none is handed over after the return.
C25_OneOutbound ==
  [][\A m \in Msgs :
       /\ (Finished(m)' /\ ~Finished(m)) =>
            /\ outbound[m] # NoMessage /\ outbound[m].to = owner[m]
            /\ outbound[m].type \in {"text", "image"}
            /\ ~Falsy(outbound[m].body)
       /\ outbound[m] # NoMessage => outbound'[m] \in {outbound[m], NoMessage}
       /\ (outbound[m] # NoMessage /\ outbound'[m] = NoMessage) => Finished(m)'
       /\ Finished(m) => (Finished(m)' /\ outbound'[m] = NoMessage)
    ]_vars

\* One message was answered with the error text after its user lookup failed,
\* the other with the fallback reply after an operation threw.
C25_Witness ==
  /\ pc[1] = "sendingError" /\ outbound[1] = ErrorMessage(owner[1])
  /\ pc[2] = "sending" /\ failed[2] = "execute"
  /\ outbound[2] = OutboundFor(owner[2], FallbackEnvelope)

\* C27: whenever processMessageWithTools returns the fixed fallback reply, no
\* ledger record has been created or deleted on behalf of that message; stated
\* for the first message while no other message has arrived, so that every
\* change of the ledger is on its behalf.
C27_FallbackNoMutation ==
  (pc[2] = "idle" /\ reply[1] = FallbackEnvelope) =>
    /\ ledger = {SeedRecord}
    /\ nextId = 2

\* The delete_expense requests of the first message that returned success.
DeleteSuccesses ==
  {i \in 1..Len(ops[1]) :
     /\ ops[1][i].call.name = "delete_expense"
     /\ ops[1][i].pc = "done"
     /\ ~IsFailure(ops[1][i].result)}

\* C28: under any interleaving of concurrent delete_expense executions for one
\* owner, the number of success results equals the number of records removed
\* from the ledger, and no two success results report the same expenseId;
\* stated for the tool calls of the first message while no other has arrived.
C28_ConcurrentDeletes ==
  (pc[2] = "idle" /\ pc[1] \in {"executing", "round2"}) =>
    /\ Cardinality(DeleteSuccesses) = (nextId - 1) - Cardinality(ledger)
    /\ \A i, j \in DeleteSuccesses :
         i # j => ops[1][i].result.expenseId # ops[1][j].result.expenseId

\* ------------------------------------------------------------------ isolation
\* What a returned query of userId is on the ledger led.
QueryValue(led, userId, tc) ==
  LET args == ParseArgs(tc).value
  IN IF tc.name = "get_total_expenses_today"
     THEN TodayResult(getTotalExpensesByUserToday(led, userId))
     ELSE IF tc.name = "get_total_expenses_this_month"
     THEN TotalResult(getTotalExpensesByUserThisMonth(led, userId))
     ELSE IF tc.name = "get_expenses_by_date_range"
     THEN RangeResult(getExpensesByUserAndDateRange(led, userId, RangeStart(args),
                                                    RangeEnd(args)), args)
     ELSE IF tc.name = "get_total_expenses_by_date_range"
     THEN TotalRangeResult(getExpensesByUserAndDateRange(led, userId, RangeStart(args),
                                                         RangeEnd(args)), args)
     ELSE IF tc.name = "generate_expense_report"
     THEN ReportResult(getExpensesByCategory(led, userId))
     ELSE DailyResult(getDailyExpenses(led, userId, ChartStart(args), ChartEnd(args)), args)

QueryNames ==
  {"get_total_expenses_today", "get_total_expenses_this_month",
   "get_expenses_by_date_range", "get_total_expenses_by_date_range",
   "generate_expense_report", "generate_daily_expense_chart"}

\* The records of everybody but userId.
RecordsOfOthers(led, userId) == {r \in led : r.owner # userId}

\* C29: per-owner isolation. An operation executed for an owner never deletes
\* or changes a record of another owner, and what a query or an add_expense
\* returns is what it would return if the ledger held the owner's records
\* only: records of others are not returned, counted or summed, and
\* operations of others cannot change the result.
C29_Isolation ==
  [][\A m \in Msgs :
       /\ pc[m] = "executing" =>
            RecordsOfOthers(ledger', owner[m]) = RecordsOfOthers(ledger, owner[m])
       /\ \A i \in 1..Len(ops[m]) :
            LET op == ops[m][i]
                own == RecordsOf(ledger, owner[m])
            IN /\ (op.pc = "done" /\ ~IsFailure(op.result) /\ op.call.name \in QueryNames) =>
                    op.result = QueryValue(own, owner[m], op.call)
               /\ (op.pc = "done" /\ ~IsFailure(op.result) /\ op.call.name = "add_expense") =>
                    /\ op.result.monthlyTotal = getTotalExpensesByUserThisMonth(own, owner[m]).total
                    /\ op.result.monthlyCount = getTotalExpensesByUserThisMonth(own, owner[m]).count
    ]_vars

\* The second owner asked for the total of the month while the ledger holds a
\* record of the first owner, and got zero and zero.
C29_Witness ==
  /\ owner[2] = "u2" /\ Len(ops[2]) = 1
  /\ ops[2][1].call = MonthTotalCall /\ ops[2][1].pc = "done"
  /\ SeedRecord \in ledger
  /\ ops[2][1].result = TotalResult([total |-> 0, count |-> 0])

====
